---- MODULE Spec2Model ----
(***************************************************************************)
(* Spektral::Arenas::LinearArena (includes/Spektral/Arenas/LinearArena.hpp) *)
(* as a state machine: one arena object, the block it obtained from malloc, *)
(* the bytes that follow its data pointer, and the calls a caller makes.    *)
(*                                                                         *)
(* size_t is modelled with SizeBits bits (the build has 64): sums and       *)
(* products of size_t values are taken modulo SizeMod, as the machine does. *)
(*                                                                         *)
(* Specifications:                                                         *)
(*   Spec       one LinearArena under alloc, alloc<T>, calloc<T>, reset and *)
(*              caller writes, with a MemoryArena given the same calls      *)
(*   SpecMake   the same arena under alloc, make<T> and reset               *)
(*   SpecRound  optimal_alloc as a function of sizes of every magnitude,    *)
(*              and an arena constructed with a large size                  *)
(*   SpecLife   construction, copy and destruction of LinearArena objects   *)
(***************************************************************************)
EXTENDS Integers, Sequences, FiniteSets, TLC

VARIABLES
  phase,            \* "start" | "active" | "oom" (constructor threw) | "crashed"
  request,          \* the constructor's argument `size`
  size_,            \* LinearArena::size_
  current_offset_,  \* LinearArena::current_offset_
  data,             \* LinearArena::data: "nullptr" or "block"
  block_size,       \* heap: number of bytes of the block malloc returned
  mem,              \* the bytes from data upward: mem[a + 1] is the byte at data + a
  page_size,        \* what sysconf(_SC_PAGE_SIZE) returns on this system
  live,             \* regions returned by successful allocations since the last reset
  last,             \* the last call and what it returned
  fresh,            \* a freshly constructed arena of the same request, given the
                    \* calls made since the last reset
  resets,           \* number of reset() calls so far
  nops,             \* number of calls so far
  marena,           \* a MemoryArena constructed with the same size and given the
                    \* same calls
  round,            \* the last call of optimal_alloc and what it returned
  wide,             \* an arena constructed with a large size
  objs,             \* the LinearArena objects of a program: state and data pointer
  heap              \* the blocks malloc returned: how often each was freed

vars == <<phase, request, size_, current_offset_, data, block_size, mem,
          page_size, live, last, fresh, resets, nops, marena, round, wide,
          objs, heap>>

\* What the calls on the one arena leave alone
aside == <<round, wide, objs, heap>>

----------------------------------------------------------------------------
(* Bounds of the model *)

SizeBits == 7          \* width of size_t in the model
MaxOps == 4            \* calls made on the arena after construction
MappedBytes == 72      \* bytes of mapped memory from data upward
MaxObjects == 3        \* LinearArena objects a program declares
RoundBits == 48        \* width of size_t where optimal_alloc is called with sizes
                       \* from 2^12 on (the build has 64; an integer of the
                       \* checker ends at 2^31, and the result for sizes from 2^20
                       \* on leaves size_t at user_sz = 2^(RoundBits - 19))
MaxSmall == 4200       \* optimal_alloc is called with every size up to this one

SizeMod == 2 ^ SizeBits

Byte == {0, 1}                         \* 0, and one value that is not 0
Requests == {0, 8, 40}                 \* constructor arguments
PageSizes == {4096}                    \* sysconf(_SC_PAGE_SIZE); never read while requests stay below 2^12
ElemSizes == {4, 8}                    \* sizeof(T): int, double
Sizes == {0, 8, 32, SizeMod - 16}      \* alloc(size) arguments
Counts == {2, SizeMod \div 8 + 1}      \* alloc<T>/calloc<T> arguments

----------------------------------------------------------------------------
(* optimal_alloc *)

\* ceil(user_sz - (1 << 20) * 1.0 / (512 * 1 << 10)): the division binds
\* tighter than the subtraction, so the argument is user_sz - 2.0, an integer.
ceil_arg(user_sz) == user_sz - ((2 ^ 20) \div ((512 * 1) * (2 ^ 10)))

optimal_alloc_le(user_sz) ==
  IF \E ii \in 5..12 : user_sz <= 2 ^ ii
  THEN LET first == CHOOSE ii \in 5..12 :
                      /\ user_sz <= 2 ^ ii
                      /\ \A jj \in 5..(ii - 1) : ~(user_sz <= 2 ^ jj)
       IN  2 ^ first
  ELSE IF user_sz >= 2 ^ 20
  THEN (2 ^ 20) + ((512 * 1) * (2 ^ 10)) * ceil_arg(user_sz)
  ELSE ((user_sz + page_size - 1) \div page_size) * page_size

optimal_alloc_floor(user_sz) ==
  IF \E ii \in 5..12 : user_sz < 2 ^ ii
  THEN LET first == CHOOSE ii \in 5..12 :
                      /\ user_sz < 2 ^ ii
                      /\ \A jj \in 5..(ii - 1) : ~(user_sz < 2 ^ jj)
       IN  2 ^ first
  ELSE IF user_sz >= 2 ^ 20
  THEN (2 ^ 20) + ((512 * 1) * (2 ^ 10)) * ceil_arg(user_sz)
  ELSE (user_sz \div page_size) * page_size

optimal_alloc(user_sz) ==
  IF \E ii \in 5..12 : user_sz < 2 ^ ii
  THEN LET first == CHOOSE ii \in 5..12 :
                      /\ user_sz < 2 ^ ii
                      /\ \A jj \in 5..(ii - 1) : ~(user_sz < 2 ^ jj)
       IN  2 ^ first
  ELSE IF user_sz >= 2 ^ 20
  THEN (2 ^ 20) + ((512 * 1) * (2 ^ 10)) * ceil_arg(user_sz)
  ELSE ((user_sz + page_size - 1) \div page_size) * page_size

----------------------------------------------------------------------------
(* The member functions, as functions of the fields they read *)

\* void *alloc(size_t size)
alloc_unchecked(cur, cap, size) ==
  [ok |-> TRUE, off |-> cur, next |-> (cur + size) % SizeMod]

alloc(cur, cap, size) ==
  IF (cur + size) % SizeMod > cap
  THEN [ok |-> FALSE, off |-> cur, next |-> cur]
  ELSE [ok |-> TRUE, off |-> cur, next |-> (cur + size) % SizeMod]

\* template <typename T> T *alloc(size_t count)
alloc_T(cur, cap, esize, count) == alloc(cur, cap, (esize * count) % SizeMod)

\* calloc<T> with the memset left out
calloc_nofill(cur, cap, esize, blocks) ==
  LET n == (esize * blocks) % SizeMod
  IN  IF (cur + n) % SizeMod > cap
      THEN [ok |-> FALSE, off |-> cur, next |-> cur, fill |-> 0]
      ELSE [ok |-> TRUE, off |-> cur, next |-> (cur + n) % SizeMod, fill |-> 0]

\* template <typename T> T *calloc(size_t blocks); fill is the memset length
calloc(cur, cap, esize, blocks) ==
  LET n == (esize * blocks) % SizeMod
  IN  IF (cur + n) % SizeMod > cap
      THEN [ok |-> FALSE, off |-> cur, next |-> cur, fill |-> 0]
      ELSE [ok |-> TRUE, off |-> cur, next |-> (cur + n) % SizeMod, fill |-> n]

\* MemoryArena::alloc(size_t), alloc<T>(size_t), calloc<T>(size_t): what they return
MemoryArena_alloc_strict(cur, cap, size) ==
  IF (cur + size) % SizeMod >= cap
  THEN [ok |-> FALSE, off |-> cur, next |-> cur]
  ELSE [ok |-> TRUE, off |-> cur, next |-> (cur + size) % SizeMod]

MemoryArena_alloc(cur, cap, size) ==
  IF (cur + size) % SizeMod > cap
  THEN [ok |-> FALSE, off |-> cur, next |-> cur]
  ELSE [ok |-> TRUE, off |-> cur, next |-> (cur + size) % SizeMod]

MemoryArena_alloc_T(cur, cap, esize, count) ==
  MemoryArena_alloc(cur, cap, (esize * count) % SizeMod)

MemoryArena_calloc(cur, cap, esize, blocks) ==
  LET n == (esize * blocks) % SizeMod
  IN  IF (cur + n) % SizeMod > cap
      THEN [ok |-> FALSE, off |-> cur, next |-> cur]
      ELSE [ok |-> TRUE, off |-> cur, next |-> (cur + n) % SizeMod]

\* MemoryArena(size_t size) : size_(size), current_offset_(0)
MemoryArena(size) ==
  [size_ |-> size, current_offset_ |-> 0, before |-> 0, ok |-> FALSE, off |-> 0]

\* The MemoryArena after the call that returned r
MemoryArenaAfter(r) ==
  [size_ |-> marena.size_, current_offset_ |-> r.next,
   before |-> marena.current_offset_, ok |-> r.ok, off |-> r.off]

\* void MemoryArena::reset() { current_offset_ = 0; }
MemoryArena_reset ==
  [size_ |-> marena.size_, current_offset_ |-> 0,
   before |-> marena.current_offset_, ok |-> TRUE, off |-> 0]

\* The offsets from data that are mapped memory, and the byte at data + a
Addr == 0..(MappedBytes - 1)
At(m, a) == m[a + 1]

\* memset(data + lo, v, len) and a caller's stores: the bytes afterwards
memset(m, lo, v, len) ==
  [i \in 1..MappedBytes |-> IF lo <= i - 1 /\ i - 1 < lo + len THEN v ELSE m[i]]

\* A store to data + lo .. data + lo + len - 1 stays inside the malloc'd block
InBlock(lo, len) == len = 0 \/ lo + len <= block_size
\* ... or runs past it but stays in mapped memory (undefined behaviour: the
\* store lands on whatever follows the block, or a checked build aborts)
InMapped(lo, len) == len = 0 \/ lo + len <= MappedBytes

Call(op, esize, count, size, r, dirty) ==
  [op |-> op, esize |-> esize, count |-> count, size |-> size,
   before |-> current_offset_, ok |-> r.ok, off |-> r.off, dirty |-> dirty]

NoCall == [op |-> "none", esize |-> 0, count |-> 0, size |-> 0,
           before |-> 0, ok |-> FALSE, off |-> 0, dirty |-> FALSE]

\* State of an arena right after LinearArena(size), with no call made yet
\* (was, refused: the offset the arena in use had when the fresh one was set
\* beside it, and whether the call before that was a refused allocation)
Fresh(size, was, refused) ==
  [size_ |-> optimal_alloc(size), current_offset_ |-> 0, ok |-> FALSE, off |-> 0,
   was |-> was, refused |-> refused]

\* The fresh arena after the same allocation call
FreshAfter(f) ==
  [size_ |-> fresh.size_, current_offset_ |-> f.next, ok |-> f.ok, off |-> f.off,
   was |-> fresh.was, refused |-> fresh.refused]

\* No call of optimal_alloc made, no arena of a large size, no object
NoRound == [user_sz |-> 0, branch |-> "none", hi |-> 0, lo |-> 0]
NoWide == [phase |-> "start", request |-> 0, size_ |-> [hi |-> 0, lo |-> 0],
           current_offset_ |-> 0, asked |-> 0, ok |-> TRUE, calls |-> 0]
Objects == 1..MaxObjects
NoObject == [state |-> "none", data |-> 0]

----------------------------------------------------------------------------
Init ==
  /\ phase = "start"
  /\ request = 0
  /\ size_ = 0
  /\ current_offset_ = 0
  /\ data = "nullptr"
  /\ block_size = 0
  /\ mem \in {[i \in 1..MappedBytes |-> g] : g \in Byte}
  /\ page_size \in PageSizes
  /\ live = <<>>
  /\ last = NoCall
  /\ fresh = [size_ |-> 0, current_offset_ |-> 0, ok |-> FALSE, off |-> 0, was |-> 0,
              refused |-> FALSE]
  /\ resets = 0
  /\ nops = 0
  /\ marena = MemoryArena(0)
  /\ round = NoRound
  /\ wide = NoWide
  /\ objs = [o \in Objects |-> NoObject]
  /\ heap = <<>>

\* explicit LinearArena(size_t size), malloc succeeding
Construct(size) ==
  /\ phase = "start"
  /\ phase' = "active"
  /\ request' = size
  /\ current_offset_' = 0
  /\ size_' = optimal_alloc(size)
  /\ data' = "block"
  /\ block_size' = size
  /\ fresh' = Fresh(size, 0, FALSE)
  /\ marena' = MemoryArena(size)
  /\ UNCHANGED <<mem, page_size, live, last, resets, nops>>
  /\ UNCHANGED aside

\* explicit LinearArena(size_t size), malloc returning a null pointer
ConstructFail(size) ==
  /\ phase = "start"
  /\ phase' = "oom"
  /\ request' = size
  /\ current_offset_' = 0
  /\ size_' = optimal_alloc(size)
  /\ UNCHANGED <<data, block_size, mem, page_size, live, last, fresh, resets, nops>>
  /\ UNCHANGED <<marena, aside>>

Alloc(size) ==
  LET r == alloc(current_offset_, size_, size)
  IN  /\ phase = "active"
      /\ nops < MaxOps
      /\ current_offset_' = r.next
      /\ live' = IF r.ok THEN Append(live, [off |-> r.off, len |-> size]) ELSE live
      /\ last' = Call("alloc", 1, size, size, r, FALSE)
      /\ fresh' = FreshAfter(alloc(fresh.current_offset_, fresh.size_, size))
      /\ marena' = MemoryArenaAfter(
                      MemoryArena_alloc(marena.current_offset_, marena.size_, size))
      /\ UNCHANGED aside
      /\ nops' = nops + 1
      /\ UNCHANGED <<phase, request, size_, data, block_size, mem, page_size, resets>>

AllocT(esize, count) ==
  LET r == alloc_T(current_offset_, size_, esize, count)
      n == (esize * count) % SizeMod
  IN  /\ phase = "active"
      /\ nops < MaxOps
      /\ current_offset_' = r.next
      /\ live' = IF r.ok THEN Append(live, [off |-> r.off, len |-> n]) ELSE live
      /\ last' = Call("allocT", esize, count, n, r, FALSE)
      /\ fresh' = FreshAfter(alloc_T(fresh.current_offset_, fresh.size_, esize, count))
      /\ marena' = MemoryArenaAfter(
                      MemoryArena_alloc_T(marena.current_offset_, marena.size_, esize, count))
      /\ UNCHANGED aside
      /\ nops' = nops + 1
      /\ UNCHANGED <<phase, request, size_, data, block_size, mem, page_size, resets>>

Calloc(esize, blocks) ==
  LET r == calloc(current_offset_, size_, esize, blocks)
      n == (esize * blocks) % SizeMod
      dirty == \E a \in Addr : r.off <= a /\ a < r.off + r.fill /\ At(mem, a) # 0
  IN  /\ phase = "active"
      /\ nops < MaxOps
      /\ \/ /\ ~r.ok
            /\ last' = Call("calloc", esize, blocks, n, r, FALSE)
            /\ fresh' = FreshAfter(calloc(fresh.current_offset_, fresh.size_, esize, blocks))
            /\ marena' = MemoryArenaAfter(
                  MemoryArena_calloc(marena.current_offset_, marena.size_, esize, blocks))
            /\ nops' = nops + 1
            /\ UNCHANGED <<phase, current_offset_, live, mem>>
         \/ /\ r.ok
            /\ InMapped(r.off, r.fill)
            /\ mem' = memset(mem, r.off, 0, r.fill)
            /\ current_offset_' = r.next
            /\ live' = Append(live, [off |-> r.off, len |-> n])
            /\ last' = Call("calloc", esize, blocks, n, r, dirty)
            /\ fresh' = FreshAfter(calloc(fresh.current_offset_, fresh.size_, esize, blocks))
            /\ marena' = MemoryArenaAfter(
                  MemoryArena_calloc(marena.current_offset_, marena.size_, esize, blocks))
            /\ nops' = nops + 1
            /\ UNCHANGED phase
         \/ /\ r.ok
            /\ ~InBlock(r.off, r.fill)
            /\ phase' = "crashed"
            /\ last' = Call("calloc", esize, blocks, n, [ok |-> FALSE, off |-> r.off], FALSE)
            /\ nops' = nops + 1
            /\ UNCHANGED <<current_offset_, live, mem, fresh, marena>>
      /\ UNCHANGED <<request, size_, data, block_size, page_size, resets>>
      /\ UNCHANGED aside

\* reset() with the memory cleared as well
reset_clearing ==
  /\ current_offset_' = 0
  /\ mem' = memset(mem, 0, 0, MappedBytes)
  /\ UNCHANGED <<size_, data, block_size>>

\* reset() that leaves the offset where it was
reset_keeping ==
  /\ current_offset_' = current_offset_
  /\ UNCHANGED <<size_, data, block_size, mem>>

\* void reset() { current_offset_ = 0; }
reset ==
  /\ current_offset_' = 0
  /\ UNCHANGED <<size_, data, block_size, mem>>

Reset ==
  /\ phase = "active"
  /\ nops < MaxOps
  /\ reset
  /\ live' = <<>>
  /\ last' = Call("reset", 0, 0, 0, [ok |-> TRUE, off |-> 0], FALSE)
  /\ fresh' = Fresh(request, current_offset_, last.op \in {"alloc", "allocT", "calloc"} /\ ~last.ok)
  /\ marena' = MemoryArena_reset
  /\ resets' = resets + 1
  /\ nops' = nops + 1
  /\ UNCHANGED <<phase, request, page_size>>
  /\ UNCHANGED aside

\* The caller fills a region it was given with v
Write(k, v) ==
  /\ phase = "active"
  /\ k \in 1..Len(live)
  /\ live[k].len > 0
  /\ \/ /\ InMapped(live[k].off, live[k].len)
        /\ mem' = memset(mem, live[k].off, v, live[k].len)
        /\ UNCHANGED phase
     \/ /\ ~InBlock(live[k].off, live[k].len)
        /\ phase' = "crashed"
        /\ UNCHANGED mem
  /\ last' = [NoCall EXCEPT !.op = "write"]
  /\ UNCHANGED <<request, size_, current_offset_, data, block_size, page_size,
                 live, fresh, resets, nops, marena>>
  /\ UNCHANGED aside

Next ==
  \/ \E size \in Requests : Construct(size)
  \/ \E size \in Requests : ConstructFail(size)
  \/ \E size \in Sizes : Alloc(size)
  \/ \E esize \in ElemSizes, count \in Counts : AllocT(esize, count)
  \/ \E esize \in ElemSizes, blocks \in Counts : Calloc(esize, blocks)
  \/ Reset
  \/ \E k \in 1..MaxOps : Write(k, 1)

Spec == Init /\ [][Next]_vars

----------------------------------------------------------------------------
(* make<T>() beside alloc and reset.  make<T>(args...) with arguments does not
   compile: std::forward(args) names no template argument. *)

\* T *make<T>(): alloc(sizeof(T)), then an object constructed by placement new
\* at the pointer alloc returned, which is not tested.  Constructing at
\* nullptr is undefined: the stores of the constructor trap at address 0, or
\* the build tests the pointer (or the constructor stores nothing) and
\* nullptr is returned.
Make(esize) ==
  LET r == alloc(current_offset_, size_, esize)
  IN  /\ phase = "active"
      /\ nops < MaxOps
      /\ \/ /\ r.ok
            /\ InMapped(r.off, esize)
            /\ mem' = memset(mem, r.off, 1, esize)
            /\ current_offset_' = r.next
            /\ live' = Append(live, [off |-> r.off, len |-> esize])
            /\ last' = Call("make", esize, 1, esize, r, FALSE)
            /\ UNCHANGED phase
         \/ /\ r.ok
            /\ ~InBlock(r.off, esize)
            /\ phase' = "crashed"
            /\ current_offset_' = r.next
            /\ last' = Call("make", esize, 1, esize, [ok |-> FALSE, off |-> r.off], FALSE)
            /\ UNCHANGED <<live, mem>>
         \/ /\ ~r.ok
            /\ phase' = "crashed"
            /\ last' = Call("make", esize, 1, esize, r, FALSE)
            /\ UNCHANGED <<current_offset_, live, mem>>
         \/ /\ ~r.ok
            /\ last' = Call("make", esize, 1, esize, r, FALSE)
            /\ UNCHANGED <<phase, current_offset_, live, mem>>
      /\ fresh' = FreshAfter(alloc(fresh.current_offset_, fresh.size_, esize))
      /\ nops' = nops + 1
      /\ UNCHANGED <<request, size_, data, block_size, page_size, resets, marena>>
      /\ UNCHANGED aside

NextMake ==
  \/ \E size \in Requests : Construct(size)
  \/ \E size \in Requests : ConstructFail(size)
  \/ \E size \in Sizes : Alloc(size)
  \/ \E esize \in ElemSizes : Make(esize)
  \/ Reset

SpecMake == Init /\ [][NextMake]_vars

----------------------------------------------------------------------------
(* optimal_alloc called with sizes of every magnitude, and the arena that
   LinearArena(size) makes of a large size.  A size_t that may pass 2^31 is
   kept as hi * 2^19 + lo with lo < 2^19. *)

\* (512 * 1 << 10), and 2^RoundBits counted in these units
HalfMiB == (512 * 1) * (2 ^ 10)
SizeSteps == 2 ^ (RoundBits - 19)

Wide(bytes) == [hi |-> bytes \div HalfMiB, lo |-> bytes % HalfMiB]
WideGE(w, n) ==
  \/ w.hi > n \div HalfMiB
  \/ w.hi = n \div HalfMiB /\ w.lo >= n % HalfMiB
WidePositive(w) == w.hi > 0 \/ w.lo > 0

\* The double hi * 2^19 returned as size_t.  A value of 2^RoundBits or more is
\* not representable and the conversion is undefined: x86-64 yields 0,
\* AArch64 the largest size_t.
to_size_t(steps) ==
  IF steps < SizeSteps
  THEN {[hi |-> steps, lo |-> 0]}
  ELSE {[hi |-> 0, lo |-> 0], [hi |-> SizeSteps - 1, lo |-> HalfMiB - 1]}

\* What a call optimal_alloc(user_sz) can return, and from which return statement
optimal_alloc_ret(user_sz) ==
  IF \E ii \in 5..12 : user_sz < 2 ^ ii
  THEN {[user_sz |-> user_sz, branch |-> "pow2",
         hi |-> Wide(optimal_alloc(user_sz)).hi, lo |-> Wide(optimal_alloc(user_sz)).lo]}
  ELSE IF user_sz >= 2 ^ 20
  THEN {[user_sz |-> user_sz, branch |-> "big", hi |-> w.hi, lo |-> w.lo] :
          w \in to_size_t((2 ^ 20) \div HalfMiB + ceil_arg(user_sz))}
  ELSE {[user_sz |-> user_sz, branch |-> "page",
         hi |-> Wide(optimal_alloc(user_sz)).hi, lo |-> Wide(optimal_alloc(user_sz)).lo]}

RoundPageSizes == {4096, 16384, 65536}   \* sysconf(_SC_PAGE_SIZE)
Magnitudes == 12..(RoundBits - 19)
RoundInputs ==
  (0..MaxSmall)
    \cup {2 ^ e - 1 : e \in Magnitudes} \cup {2 ^ e : e \in Magnitudes}
    \cup {2 ^ e + 1 : e \in Magnitudes} \cup {3 * 2 ^ (e - 1) : e \in Magnitudes}
    \cup {8192 + 100, 1500000, 40000000}
WideRequests == {40000000, SizeSteps - 1, SizeSteps}   \* NUM_ITERS * BLOCK_SIZE first
WideSizes == {40, 2 ^ 20}                              \* BLOCK_SIZE first

InitRound ==
  /\ phase = "start"
  /\ request = 0
  /\ size_ = 0
  /\ current_offset_ = 0
  /\ data = "nullptr"
  /\ block_size = 0
  /\ mem = <<>>
  /\ page_size \in RoundPageSizes
  /\ live = <<>>
  /\ last = NoCall
  /\ fresh = [size_ |-> 0, current_offset_ |-> 0, ok |-> FALSE, off |-> 0, was |-> 0,
              refused |-> FALSE]
  /\ resets = 0
  /\ nops = 0
  /\ marena = MemoryArena(0)
  /\ round = NoRound
  /\ wide = NoWide
  /\ objs = [o \in Objects |-> NoObject]
  /\ heap = <<>>

arena_vars == <<phase, request, size_, current_offset_, data, block_size, mem,
                page_size, live, last, fresh, resets, nops, marena>>

\* size_t optimal_alloc(size_t user_sz), called on its own, once in a run
RoundUp(user_sz) ==
  /\ round = NoRound
  /\ round' \in optimal_alloc_ret(user_sz)
  /\ UNCHANGED <<arena_vars, wide, objs, heap>>

\* explicit LinearArena(size_t size) with a large size, malloc succeeding
WideConstruct(size) ==
  /\ wide.phase = "start"
  /\ round = NoRound
  /\ round' \in optimal_alloc_ret(size)
  /\ wide' = [phase |-> "active", request |-> size,
              size_ |-> [hi |-> round'.hi, lo |-> round'.lo],
              current_offset_ |-> 0, asked |-> 0, ok |-> TRUE, calls |-> 0]
  /\ UNCHANGED <<arena_vars, objs, heap>>

\* void *alloc(size_t size) on that arena; the sum stays far below 2^RoundBits
WideAlloc(size) ==
  /\ wide.phase = "active"
  /\ wide.calls < MaxOps
  /\ IF ~WideGE(wide.size_, wide.current_offset_ + size)
     THEN wide' = [wide EXCEPT !.asked = @ + size, !.ok = FALSE, !.calls = @ + 1]
     ELSE wide' = [wide EXCEPT !.asked = @ + size, !.calls = @ + 1,
                               !.current_offset_ = @ + size]
  /\ UNCHANGED <<arena_vars, round, objs, heap>>

NextRound ==
  \/ \E user_sz \in RoundInputs : RoundUp(user_sz)
  \/ \E size \in WideRequests : WideConstruct(size)
  \/ \E size \in WideSizes : WideAlloc(size)

SpecRound == InitRound /\ [][NextRound]_vars

----------------------------------------------------------------------------
(* The special member functions of LinearArena: the constructor, the destructor
   and, since the class declares neither, the copy constructor and the copy
   assignment operator the compiler generates, which copy size_,
   current_offset_ and data member by member. *)

InitLife == InitRound /\ page_size = 4096

\* LinearArena o(size): data = malloc(size), a block no object has yet
ObjConstruct(o) ==
  /\ objs[o].state = "none"
  /\ heap' = Append(heap, [frees |-> 0])
  /\ objs' = [objs EXCEPT ![o] = [state |-> "live", data |-> Len(heap) + 1]]
  /\ UNCHANGED <<arena_vars, round, wide>>

\* LinearArena o(src): the implicit copy constructor
ObjCopyConstruct(o, src) ==
  /\ objs[o].state = "none"
  /\ objs[src].state = "live"
  /\ objs' = [objs EXCEPT ![o] = [state |-> "live", data |-> objs[src].data]]
  /\ UNCHANGED <<arena_vars, round, wide, heap>>

\* o = src: the implicit copy assignment; the block o had is not freed
ObjCopyAssign(o, src) ==
  /\ objs[o].state = "live"
  /\ objs[src].state = "live"
  /\ objs' = [objs EXCEPT ![o].data = objs[src].data]
  /\ UNCHANGED <<arena_vars, round, wide, heap>>

\* ~LinearArena() { free(data); }
ObjDestroy(o) ==
  /\ objs[o].state = "live"
  /\ heap' = [heap EXCEPT ![objs[o].data].frees = @ + 1]
  /\ objs' = [objs EXCEPT ![o].state = "dead"]
  /\ UNCHANGED <<arena_vars, round, wide>>

NextLife ==
  \/ \E o \in Objects : ObjConstruct(o)
  \/ \E o \in Objects, src \in Objects : ObjCopyConstruct(o, src)
  \/ \E o \in Objects, src \in Objects : ObjCopyAssign(o, src)
  \/ \E o \in Objects : ObjDestroy(o)

SpecLife == InitLife /\ [][NextLife]_vars

----------------------------------------------------------------------------
(* Properties *)

AllocOps == {"alloc", "allocT", "calloc"}

\* The bytes of mapped memory in [lo, lo + len)
Region(lo, len) == {a \in Addr : lo <= a /\ a < lo + len}

\* C1: every region a successful allocation returns and every byte calloc's
\* zero-fill writes lies inside the block obtained from malloc, and a request
\* that does not fit in that block is refused.
C1_InsideObtainedBlock ==
  /\ ~(phase = "crashed" /\ last.op = "calloc")
  /\ (phase = "active" /\ last.op \in AllocOps /\ last.ok)
        => InBlock(last.off, last.size)
  /\ (phase = "active" /\ last.op \in AllocOps /\ ~InBlock(last.before, last.size))
        => ~last.ok

\* C2: after a successful construction the number of bytes obtained from the
\* system allocator equals the tracked capacity size_ = optimal_alloc(s).
C2_ObtainedEqualsCapacity ==
  phase = "active" => (size_ = optimal_alloc(request) /\ block_size = size_)

\* C3: alloc(size) succeeds iff cursor + size <= capacity as a mathematical
\* sum; on success it returns the old cursor and the cursor advances by size.
C3_AllocIffFits ==
  (phase = "active" /\ last.op = "alloc") =>
     /\ last.ok <=> (last.before + last.size <= size_)
     /\ last.ok => (last.off = last.before /\ current_offset_ = last.before + last.size)

\* The request of the call `c`, as the mathematical product count * sizeof(T)
\* (alloc(size) is recorded with sizeof 1 and count size)
Asked(c) == c.esize * c.count

\* A step that is one call of alloc, alloc<T> or calloc<T>
AllocStep == nops' = nops + 1 /\ last'.op \in AllocOps

\* C4: a request that does not fit (cursor + size > capacity) returns nullptr
\* without throwing, leaves cursor, capacity and every buffer byte unchanged,
\* and a following allocation that does fit succeeds at the unchanged cursor.
C4_FullRefusesAndKeepsState ==
  [][AllocStep =>
       /\ (current_offset_ + Asked(last') > size_) =>
             /\ ~last'.ok
             /\ phase' = "active"
             /\ current_offset_' = current_offset_
             /\ size_' = size_
             /\ mem' = mem
       /\ (last.op \in AllocOps /\ ~last.ok /\ current_offset_ + Asked(last') <= size_) =>
             /\ last'.ok
             /\ phase' = "active"
             /\ last'.off = last.before]_vars

\* C5: with no reset in between, two successful allocations at offsets a < b
\* with sizes sa, sb satisfy a + sa <= b.
C5_NoOverlap ==
  \A i \in 1..Len(live) : \A j \in 1..Len(live) :
     live[i].off < live[j].off => live[i].off + live[i].len <= live[j].off

\* C6: between two resets no alloc, alloc<T> or calloc<T> call changes a byte of
\* a region returned earlier, and the buffer is never resized or reallocated.
C6_EarlierRegionsUntouched ==
  [][AllocStep =>
       /\ \A k \in 1..Len(live) : \A a \in Region(live[k].off, live[k].len) :
             At(mem', a) = At(mem, a)
       /\ data' = data
       /\ block_size' = block_size]_vars

\* C7: every byte of a region returned by a successful calloc<T>(count) is
\* zero when the call returns, also over bytes that held non-zero values
\* before a reset.
C7_CallocZeroed ==
  (phase = "active" /\ last.op = "calloc" /\ last.ok) =>
     /\ InMapped(last.off, last.size)
     /\ \A a \in Region(last.off, last.size) : At(mem, a) = 0

\* the memory was all zero at construction, a caller wrote non-zero bytes, and
\* after a reset calloc returned a region that held some of them
C7_Witness ==
  /\ phase = "active" /\ last.op = "calloc" /\ last.ok
  /\ last.size > 0 /\ last.dirty /\ resets > 0 /\ fresh.was > 0
  /\ At(mem, MappedBytes - 1) = 0

\* C8: alloc<T>(count) and calloc<T>(count) succeed iff cursor + n <= capacity
\* for the mathematical product n = count * sizeof(T), and then advance the
\* cursor by n.
C8_TypedIsAllocOfProduct ==
  (phase = "active" /\ last.op \in {"allocT", "calloc"}) =>
     /\ last.ok <=> (last.before + Asked(last) <= size_)
     /\ last.ok => (last.off = last.before /\ current_offset_ = last.before + Asked(last))

\* C9: reset() sets the cursor to 0 and changes nothing else: capacity, buffer
\* identity and every byte of the buffer stay as they were.
C9_ResetOnlyCursor ==
  [][(nops' = nops + 1 /\ last'.op = "reset") =>
       /\ current_offset_' = 0
       /\ size_' = size_
       /\ data' = data
       /\ block_size' = block_size
       /\ mem' = mem
       /\ phase' = phase]_vars

\* reset() was called with the cursor advanced and non-zero bytes in the block
C9_Witness ==
  /\ phase = "active" /\ last.op = "reset" /\ last.before > 0
  /\ current_offset_ = 0
  /\ \E a \in Region(0, block_size) : At(mem, a) # 0
  /\ \E a \in Region(0, block_size) : At(mem, a) = 0

\* After a reset the arena and a freshly constructed arena of the same request
\* agree on the fields and on what the last allocation call returned
AgreesWithFresh ==
  (phase = "active" /\ resets > 0) =>
     /\ current_offset_ = fresh.current_offset_
     /\ size_ = fresh.size_
     /\ last.op \in AllocOps =>
           (last.ok = fresh.ok /\ (last.ok => last.off = fresh.off))

\* reset() is accepted in every Active state
ResetAccepted == (phase = "active" /\ nops < MaxOps) => ENABLED Reset

\* a reset() right after a reset() changes nothing
ResetTwice ==
  (last.op = "reset" /\ last'.op = "reset" /\ nops' = nops + 1) =>
     UNCHANGED <<phase, size_, current_offset_, data, block_size, mem, live>>

\* C10: reset() is accepted in every Active state (a full arena and a state
\* after failed allocations included); afterwards a sequence of allocation
\* requests returns the offsets and outcomes it returns on a freshly
\* constructed arena of the same requested size; reset() twice is reset() once.
C10_ResetReuse == [](AgreesWithFresh /\ ResetAccepted) /\ [][ResetTwice]_vars

\* a full arena refused a request, was reset, and then served one at offset 0
C10_Witness ==
  /\ phase = "active" /\ resets > 0 /\ fresh.was = size_ /\ fresh.refused
  /\ last.op \in AllocOps /\ last.ok /\ last.off = 0 /\ last.size > 0


----------------------------------------------------------------------------
(* optimal_alloc and the capacity it gives: C11 to C14, C18 *)

\* C11: the arena is never smaller than requested: on a LinearArena freshly
\* constructed with size s, while the sizes asked of alloc sum to at most s,
\* every call so far was served (so n calls alloc(b) on NUM_ITERS * BLOCK_SIZE
\* = n * b bytes all return non-null).
C11_RequestedBytesServed ==
  (wide.phase = "active" /\ wide.asked <= wide.request) => wide.ok

\* C12: for every size r >= 0, optimal_alloc(r) is positive and not smaller
\* than r, and optimal_alloc(0) = 32.
C12_NotSmallerThanRequested ==
  round.branch # "none" =>
    /\ WidePositive(round)
    /\ WideGE(round, round.user_sz)
    /\ round.user_sz = 0 => (round.hi = 0 /\ round.lo = 32)

\* C13: for every size r >= 2^20, optimal_alloc(r) = 2^20 + 2^19 * k with the
\* smallest k >= 0 that makes the result at least r (so 1048576 gives 1048576
\* and 1500000 gives 1572864 = 2^20 + 2^19).
C13_SmallestHalfMiBStep ==
  (round.branch # "none" /\ round.user_sz >= 2 ^ 20) =>
    LET k == round.hi - (2 ^ 20) \div HalfMiB
    IN  /\ round.lo = 0
        /\ k >= 0
        /\ WideGE(round, round.user_sz)
        /\ k > 0 => ~WideGE([hi |-> round.hi - 1, lo |-> 0], round.user_sz)

\* C14: for 0 <= r < 2^12, optimal_alloc(r) is the smallest power of two among
\* 2^5..2^12 that is strictly greater than r (100 gives 128, 1000 gives 1024,
\* 1024 gives 2048), and for no r >= 2^12 does the result come from this branch.
C14_NextPowerOfTwo ==
  round.branch # "none" =>
    /\ round.user_sz < 2 ^ 12 =>
          /\ round.branch = "pow2"
          /\ round.hi = 0
          /\ \E e \in 5..12 :
                /\ round.lo = 2 ^ e
                /\ round.lo > round.user_sz
                /\ e > 5 => 2 ^ (e - 1) <= round.user_sz
    /\ round.user_sz >= 2 ^ 12 => round.branch # "pow2"

C14_Witness ==
  round.branch = "pow2" /\ round.user_sz = 1024 /\ round.hi = 0 /\ round.lo = 2048

\* C18: for every size r with 2^12 <= r < 2^20, optimal_alloc(r) is the
\* smallest multiple of the system page size that is at least r (for 8192 the
\* next page multiple from 8192 on).
C18_NextPageMultiple ==
  (round.branch # "none" /\ 2 ^ 12 <= round.user_sz /\ round.user_sz < 2 ^ 20) =>
    LET v == round.hi * HalfMiB + round.lo
    IN  /\ round.branch = "page"
        /\ v % page_size = 0
        /\ v >= round.user_sz
        /\ v - page_size < round.user_sz

C18_Witness ==
  /\ round.branch = "page"
  /\ round.user_sz = 8192 + 100
  /\ page_size = 4096
  /\ round.hi = 0
  /\ round.lo = 3 * 4096

----------------------------------------------------------------------------
(* Ownership of the block: C15 *)

\* C15: over every sequence of constructions, copy constructions, copy
\* assignments and destructions, no two live arena objects refer to the same
\* block, no block is freed more than once, and once no object is live every
\* block has been freed exactly once.
C15_ExclusiveOwnership ==
  /\ \A o1 \in Objects, o2 \in Objects :
        (o1 # o2 /\ objs[o1].state = "live" /\ objs[o2].state = "live")
          => objs[o1].data # objs[o2].data
  /\ \A b \in 1..Len(heap) : heap[b].frees <= 1
  /\ (\A o \in Objects : objs[o].state # "live")
       => \A b \in 1..Len(heap) : heap[b].frees = 1

----------------------------------------------------------------------------
(* The cursor: C16, C17 *)

\* C16: in every state reached by alloc, alloc<T>, calloc<T> and reset calls
\* with any arguments, 0 <= cursor <= capacity, and the capacity is the one
\* given at construction.
C16_CursorWithinCapacity ==
  phase \in {"active", "crashed"} =>
    /\ 0 <= current_offset_
    /\ current_offset_ <= size_
    /\ size_ = optimal_alloc(request)

\* A served call whose cursor + size passed the range of size_t
C16_Witness ==
  /\ phase = "active"
  /\ last.op \in AllocOps
  /\ last.ok
  /\ last.before + last.size >= SizeMod
  /\ current_offset_ <= size_

\* C17: between two resets the cursor never decreases: no alloc, alloc<T> or
\* calloc<T> call, served or refused, with any argument, leaves the cursor
\* smaller than it was before the call.
C17_CursorMonotonic ==
  [][AllocStep => current_offset_' >= current_offset_]_vars

----------------------------------------------------------------------------
(* make: C19 *)

\* C19: when fewer than sizeof(T) bytes remain, make<T>() constructs no
\* object, writes no memory, leaves the cursor unchanged and returns nullptr;
\* when enough bytes remain it constructs one T at the old cursor offset and
\* advances the cursor by sizeof(T).
C19_MakeChecksRoom ==
  [][(nops' = nops + 1 /\ last'.op = "make") =>
       IF size_ - current_offset_ < last'.esize
       THEN /\ ~last'.ok
            /\ phase' = "active"
            /\ mem' = mem
            /\ live' = live
            /\ current_offset_' = current_offset_
       ELSE /\ last'.ok
            /\ phase' = "active"
            /\ last'.off = current_offset_
            /\ live' = Append(live, [off |-> current_offset_, len |-> last'.esize])
            /\ current_offset_' = current_offset_ + last'.esize]_vars

----------------------------------------------------------------------------
(* MemoryArena beside LinearArena: C20 *)

============================================================================
